---- MODULE Spec2Model ----
(***************************************************************************)
(* Model of src/Generate.py: the scene-graph hierarchy extractor, the      *)
(* folder scaffolder, the Data.json manifest builder, the Excel descriptor *)
(* validator/merger and the watchdog event handler (UnifiedFileHandler).   *)
(*                                                                         *)
(* Strings that the code compares, sorts, strips or lower-cases (node      *)
(* names, directory names, file stems, cell values) are sequences of       *)
(* Unicode code points, so that Python's str ordering, str.strip(),        *)
(* str.lower() and str.replace(' ', '') are computed, not assumed.         *)
(* File extensions are strings (".png"); the code only tests them for      *)
(* membership after lower-casing.                                          *)
(* A path is the sequence of directory names below the watch folder; a     *)
(* file is the record [dir, stem, ext].                                    *)
(***************************************************************************)
EXTENDS Integers, Sequences, FiniteSets, TLC

VARIABLES
    gltf,                \* the decoded scene graph handed to extract_hierarchy
    hierarchy,           \* what extract_hierarchy returned (None before the call)
    runs,                \* number of create_folders_from_hierarchy runs so far
    dirs,                \* the directories that exist (set of paths)
    files,               \* the files that exist: file record -> content
    now,                 \* time.time(), in units of the 0.5 s settle delay
    last_update,         \* UnifiedFileHandler.last_update: model folder -> time
    processed_glb_files, \* UnifiedFileHandler.processed_glb_files
    trace,               \* what the last call did (observation only)
    window,              \* per model folder, the events and reconciliations of
                         \* the current debounce window (observation only)
    user_ops             \* number of changes the user made so far

vars == <<gltf, hierarchy, runs, dirs, files, now, last_update,
          processed_glb_files, trace, window, user_ops>>

-----------------------------------------------------------------------------
(* Bounds of the model *)

MaxNodes == 3        \* nodes in a scene graph
MaxRefs == 2         \* child references in a scene graph, all nodes together
MaxRuns == 2         \* scaffolder runs on one destination
MaxTime == 7         \* the clock stops here
MaxBurst == 5        \* events counted in one debounce window
MaxUserOps == 2      \* changes a user makes to the watched tree

-----------------------------------------------------------------------------
(* Strings as code-point sequences *)

Whitespace == {9, 10, 11, 12, 13, 32}

\* not s.strip(): every character is whitespace (the empty string included)
IsBlank(s) == \A i \in 1..Len(s) : s[i] \in Whitespace

LowerChar(c) == IF c >= 65 /\ c <= 90 THEN c + 32 ELSE c

\* str.lower()
Lower(s) == [i \in 1..Len(s) |-> LowerChar(s[i])]

\* Python's str < str: lexicographic on code points, a proper prefix is smaller
RECURSIVE StrLess(_, _)
StrLess(a, b) ==
    IF b = <<>> THEN FALSE
    ELSE IF a = <<>> THEN TRUE
    ELSE IF a[1] # b[1] THEN a[1] < b[1]
    ELSE StrLess(Tail(a), Tail(b))

StrLeq(a, b) == a = b \/ StrLess(a, b)

\* "Node_" and the decimal digit of idx (idx < 10)
NodePlaceholder(idx) == <<78, 111, 100, 101, 95, 48 + idx>>

Blank == <<32>>
Letter(i) == <<65 + i>>

\* An optional value: <<>> is None, <<v>> is the value v
None == <<>>
Some(v) == <<v>>

-----------------------------------------------------------------------------
(* GLB hierarchy extraction *)

\* The scene graphs drawn as inputs: n <= MaxNodes nodes, each unnamed,
\* blank-named or named, and at most MaxRefs child references <<parent, child>>
\* in all, listed in the order they stand in the parents' child lists; a child
\* may be any index 0..n-1 (cycles and shared children included) or n, an index
\* that has no node.
NameKinds == {"unnamed", "blank", "named"}

NameOfKind(kind, idx) ==
    CASE kind = "unnamed" -> None
      [] kind = "blank" -> Some(Blank)
      [] kind = "named" -> Some(Letter(idx))

RECURSIVE KidsOf(_, _)
KidsOf(refs, parent) ==
    IF refs = <<>> THEN <<>>
    ELSE (IF Head(refs)[1] = parent THEN <<Head(refs)[2]>> ELSE <<>>)
         \o KidsOf(Tail(refs), parent)

\* the node list with the given name kinds (1..n -> NameKinds) and references
\* <<parent, child>>, a node's children in the order of their references
Graph(kinds, refs) ==
    [i \in DOMAIN kinds |->
        [name |-> NameOfKind(kinds[i], i - 1), children |-> KidsOf(refs, i - 1)]]

\* lines 36-42: index -> {name, children}; a node without a name (None or '')
\* gets the placeholder Node_<idx>
nodes_dict(g) ==
    [idx \in 0..(Len(g) - 1) |->
        [name |-> IF g[idx + 1].name # None /\ g[idx + 1].name[1] # <<>>
                  THEN g[idx + 1].name[1]
                  ELSE NodePlaceholder(idx),
         children |-> g[idx + 1].children]]

Range(s) == {s[i] : i \in 1..Len(s)}

\* lines 45-47
all_children(nd) == UNION {Range(nd[i].children) : i \in DOMAIN nd}

\* line 49: the keys, in insertion (index) order, that are nobody's child
RECURSIVE RootsFrom(_, _)
RootsFrom(nd, idx) ==
    IF idx \notin DOMAIN nd THEN <<>>
    ELSE (IF idx \notin all_children(nd) THEN <<idx>> ELSE <<>>)
         \o RootsFrom(nd, idx + 1)

root_nodes(nd) == RootsFrom(nd, 0)

\* build_tree never returns on a cycle: a call chain longer than the number of
\* nodes repeats a node, so the recursion goes on until Python raises
\* RecursionError, which line 79 catches.
RECURSIVE Overflows(_, _, _)
Overflows(nd, node_idx, fuel) ==
    /\ node_idx \in DOMAIN nd
    /\ \/ fuel = 0
       \/ \E c \in Range(nd[node_idx].children) : Overflows(nd, c, fuel - 1)

\* lines 52-68: None for an index with no node, else {name, children} with the
\* None subtrees dropped (a dict is always truthy)
RECURSIVE build_tree(_, _)
RECURSIVE BuildChildren(_, _)

\* a build that gives up on the remaining siblings at a child with no node
BuildChildrenStopAtMissing(nd, cs) ==
    IF cs = <<>> \/ build_tree(nd, Head(cs)) = None THEN <<>>
    ELSE build_tree(nd, Head(cs)) \o BuildChildren(nd, Tail(cs))

\* lines 63-66
BuildChildren(nd, cs) ==
    IF cs = <<>> THEN <<>>
    ELSE build_tree(nd, Head(cs)) \o BuildChildren(nd, Tail(cs))

build_tree(nd, node_idx) ==
    IF node_idx \notin DOMAIN nd THEN None
    ELSE Some([name |-> nd[node_idx].name,
               children |-> BuildChildren(nd, nd[node_idx].children)])

\* lines 71-75: the roots' trees, a root with a blank name left out
RECURSIVE RootTrees(_, _)
RootTrees(nd, rs) ==
    IF rs = <<>> THEN <<>>
    ELSE LET tree == build_tree(nd, Head(rs))
         IN (IF tree # None /\ ~IsBlank(tree[1].name) THEN tree ELSE <<>>)
            \o RootTrees(nd, Tail(rs))

\* an extraction that gives up only the roots whose tree cannot be built
extract_sparing_roots(glb) ==
    IF ~glb.decodes THEN <<>>
    ELSE LET nd == nodes_dict(glb.nodes)
             rs == root_nodes(nd)
         IN RootTrees(nd, SelectSeq(rs, LAMBDA r : ~Overflows(nd, r, Len(glb.nodes))))

\* lines 28-81. glb is the content of the .glb file: whether GLTF2().load
\* decodes it, and the nodes it holds. Any exception gives the empty forest.
extract_hierarchy(glb) ==
    IF ~glb.decodes THEN <<>>
    ELSE LET nd == nodes_dict(glb.nodes)
             rs == root_nodes(nd)
         IN IF \E i \in 1..Len(rs) : Overflows(nd, rs[i], Len(glb.nodes))
            THEN <<>>
            ELSE RootTrees(nd, rs)

-----------------------------------------------------------------------------
(* The filesystem: fs = [dirs, files] *)

File(dir, stem, ext) == [dir |-> dir, stem |-> stem, ext |-> ext]

FileExists(fs, f) == f \in DOMAIN fs.files

\* Path.mkdir(exist_ok=True)
Mkdir(fs, path) == [fs EXCEPT !.dirs = @ \cup {path}]

\* open(path, 'w') / wb.save(path): create or replace the file
WriteFile(fs, f, content) ==
    [fs EXCEPT !.files = [x \in DOMAIN @ \cup {f} |-> IF x = f THEN content ELSE @[x]]]

RemoveFile(fs, f) ==
    [fs EXCEPT !.files = [x \in DOMAIN @ \ {f} |-> @[x]]]

KeyHeader == <<75, 101, 121>>              \* "Key"
ValueHeader == <<86, 97, 108, 117, 101>>   \* "Value"

\* lines 121-138: a sheet with the header row  Key | Value  and no data rows
TemplateSheet == << <<Some(KeyHeader), Some(ValueHeader)>> >>

-----------------------------------------------------------------------------
(* Folder scaffolding *)

create_part_excel_overwrite(fs, folder_path, name) ==
    WriteFile(fs, File(folder_path, name, ".xlsx"), TemplateSheet)

\* lines 110-141 (openpyxl installed): an existing workbook is left alone
create_part_excel(fs, folder_path, name) ==
    IF FileExists(fs, File(folder_path, name, ".xlsx"))
    THEN fs
    ELSE WriteFile(fs, File(folder_path, name, ".xlsx"), TemplateSheet)

RECURSIVE create_folders_from_hierarchy(_, _, _)

\* a scaffolder that skips a blank-named node but still descends into it
create_folders_promoting(fs, forest, parent_folder) ==
    IF forest = <<>> THEN fs
    ELSE LET node == Head(forest)
             node_folder == IF IsBlank(node.name) THEN parent_folder
                            ELSE Append(parent_folder, node.name)
             made == IF IsBlank(node.name) THEN fs
                     ELSE create_part_excel(Mkdir(fs, node_folder),
                                            node_folder, node.name)
             below == create_folders_from_hierarchy(made, node.children, node_folder)
         IN create_folders_from_hierarchy(below, Tail(forest), parent_folder)

\* lines 84-107: the file system after the call
create_folders_from_hierarchy(fs, forest, parent_folder) ==
    IF forest = <<>> THEN fs
    ELSE LET node == Head(forest)
         IN IF IsBlank(node.name)
            THEN create_folders_from_hierarchy(fs, Tail(forest), parent_folder)
            ELSE LET node_folder == Append(parent_folder, node.name)
                     made == create_part_excel(Mkdir(fs, node_folder),
                                               node_folder, node.name)
                     below == IF node.children # <<>>
                              THEN create_folders_from_hierarchy(
                                       made, node.children, node_folder)
                              ELSE made
                 IN create_folders_from_hierarchy(below, Tail(forest), parent_folder)


-----------------------------------------------------------------------------
(* Data.json generation.                                                   *)
(* Path.iterdir, Path.glob and iteration over a set of str come in an      *)
(* order the code does not control, so every function that depends on it   *)
(* is modelled by the set of results the possible orders give.             *)

IMAGE_EXTENSIONS == {".png", ".jpg", ".jpeg", ".gif", ".bmp", ".webp"}
VIDEO_EXTENSIONS == {".mp4", ".avi", ".mov", ".mkv", ".webm"}

AssetsName == <<65, 115, 115, 101, 116, 115>>       \* "Assets"
VideosName == <<86, 105, 100, 101, 111, 115>>       \* "Videos"
DataStem == <<68, 97, 116, 97>>                     \* "Data" of Data.json
QRCodeStem == <<81, 82, 67, 111, 100, 101>>         \* "QRCode"
qrcode == <<113, 114, 99, 111, 100, 101>>           \* 'qrcode'

\* suffix.lower(), on the extensions the model uses
LowerExt(ext) ==
    CASE ext = ".PNG" -> ".png"
      [] ext = ".JPG" -> ".jpg"
      [] ext = ".MP4" -> ".mp4"
      [] ext = ".GLB" -> ".glb"
      [] ext = ".XLSX" -> ".xlsx"
      [] OTHER -> ext

Last(path) == path[Len(path)]
Parent(path) == SubSeq(path, 1, Len(path) - 1)
IsPrefix(p, q) == Len(p) <= Len(q) /\ SubSeq(q, 1, Len(p)) = p

FilesIn(fs, folder) == {f \in DOMAIN fs.files : f.dir = folder}
SubdirsOf(fs, folder) == {d \in fs.dirs : d # <<>> /\ Parent(d) = folder}

\* Path.exists() of a directory path
DirExists(fs, path) == path \in fs.dirs

\* Path.relative_to(base) of a file below base: the directories from base down,
\* and the file name
RelativeTo(f, base) ==
    [dir |-> SubSeq(f.dir, Len(base) + 1, Len(f.dir)), stem |-> f.stem, ext |-> f.ext]

\* the orderings of a finite set
Perms(S) ==
    {q \in [1..Cardinality(S) -> S] : \A i, j \in DOMAIN q : i # j => q[i] # q[j]}

\* list.sort(key=lambda x: x['name']): a stable sort, ascending by name
RECURSIVE SortByName(_)

\* a sort that compares the names without regard to case
RECURSIVE SortIgnoringCase(_)
SortIgnoringCase(list) ==
    IF list = <<>> THEN <<>>
    ELSE LET sorted == SortIgnoringCase(SubSeq(list, 1, Len(list) - 1))
             x == list[Len(list)]
             k == Cardinality({i \in DOMAIN sorted :
                                 StrLeq(Lower(sorted[i].name), Lower(x.name))})
         IN SubSeq(sorted, 1, k) \o <<x>> \o SubSeq(sorted, k + 1, Len(sorted))

SortByName(list) ==
    IF list = <<>> THEN <<>>
    ELSE LET sorted == SortByName(SubSeq(list, 1, Len(list) - 1))
             x == list[Len(list)]
             k == Cardinality({i \in DOMAIN sorted : StrLeq(sorted[i].name, x.name)})
         IN SubSeq(sorted, 1, k) \o <<x>> \o SubSeq(sorted, k + 1, Len(sorted))

\* lines 148-156: None, or the first *.glb of the listing
find_glb_file(fs, folder_path) ==
    LET glb_files == {f \in FilesIn(fs, folder_path) : f.ext = ".glb"}
    IN IF glb_files = {} THEN {None} ELSE {Some(f) : f \in glb_files}

IsQRCode(f) == LowerExt(f.ext) \in IMAGE_EXTENSIONS /\ Lower(f.stem) = qrcode

\* lines 159-170: the name of the first QR image of the listing, or QRCode.png
find_qr_code(fs, folder_path) ==
    LET found == {f \in FilesIn(fs, folder_path) : IsQRCode(f)}
    IN IF found = {} THEN {[stem |-> QRCodeStem, ext |-> ".png"]}
       ELSE {[stem |-> f.stem, ext |-> f.ext] : f \in found}

\* lines 173-198
scan_folder_for_images(fs, folder_path, base_path) ==
    LET buttons == {[name |-> f.stem, imagePath |-> RelativeTo(f, base_path)] :
                      f \in {g \in FilesIn(fs, folder_path) :
                               LowerExt(g.ext) \in IMAGE_EXTENSIONS /\ ~IsQRCode(g)}}
    IN {SortByName(listing) : listing \in Perms(buttons)}

\* lines 201-216: '' (the empty sequence), or the path of the first match in
\* the iteration order of VIDEO_EXTENSIONS
find_video_for_part(fs, part_name, base_path) ==
    LET videos_folder == base_path \o <<AssetsName, VideosName>>
        found == {ext \in VIDEO_EXTENSIONS :
                    FileExists(fs, File(videos_folder, part_name, ext))}
    IN IF ~DirExists(fs, videos_folder) \/ found = {} THEN {<<>>}
       ELSE {<<RelativeTo(File(videos_folder, part_name, ext), base_path)>> :
                ext \in found}

\* lines 219-254
\* a scan that leaves out the Videos folder of the Assets folder only
RECURSIVE scan_sparing_top_videos(_, _, _)
scan_sparing_top_videos(fs, folder_path, base_path) ==
    LET subdirs == {d \in SubdirsOf(fs, folder_path) :
                      d # base_path \o <<AssetsName, VideosName>>}
        PartsFor(subdir) ==
            {[name |-> Last(subdir), video |-> v, datasheet |-> <<>>,
              description |-> <<>>, buttons |-> b, parts |-> ps] :
                v \in find_video_for_part(fs, Last(subdir), base_path),
                b \in scan_folder_for_images(fs, subdir, base_path),
                ps \in scan_sparing_top_videos(fs, subdir, base_path)}
        listings ==
            {q \in [1..Cardinality(subdirs) -> UNION {PartsFor(d) : d \in subdirs}] :
                \A d \in subdirs : \E i \in DOMAIN q : q[i].name = Last(d)}
    IN {SortByName(parts) : parts \in listings}

RECURSIVE scan_folder_structure(_, _, _)
scan_folder_structure(fs, folder_path, base_path) ==
    LET subdirs == {d \in SubdirsOf(fs, folder_path) : Last(d) # VideosName}
        PartsFor(subdir) ==
            {[name |-> Last(subdir), video |-> v, datasheet |-> <<>>,
              description |-> <<>>, buttons |-> b, parts |-> ps] :
                v \in find_video_for_part(fs, Last(subdir), base_path),
                b \in scan_folder_for_images(fs, subdir, base_path),
                ps \in scan_folder_structure(fs, subdir, base_path)}
        listings ==
            {q \in [1..Cardinality(subdirs) -> UNION {PartsFor(d) : d \in subdirs}] :
                \A d \in subdirs : \E i \in DOMAIN q : q[i].name = Last(d)}
    IN {SortByName(parts) : parts \in listings}


\* str.replace(' ', '')
RemoveSpaces(str) == SelectSeq(str, LAMBDA c : c # 32)

DataJson(folder) == File(folder, DataStem, ".json")

\* lines 257-304: None, or the one-element list holding the model record
generate_data_json(fs, folder_path) ==
    IF ~DirExists(fs, folder_path) THEN {None}
    ELSE IF find_glb_file(fs, folder_path) = {None} THEN {None}
    ELSE IF ~DirExists(fs, Append(folder_path, AssetsName)) THEN {None}
    ELSE {Some(<<[name |-> glb_file[1].stem,
                  qr_image_url |-> qr_code_file,
                  modelFileUrl |-> [stem |-> RemoveSpaces(Last(folder_path)),
                                    ext |-> glb_file[1].ext],
                  Description |-> <<>>,
                  Buttons |-> main_buttons,
                  parts |-> parts]>>) :
             glb_file \in find_glb_file(fs, folder_path),
             main_buttons \in scan_folder_for_images(fs, folder_path, folder_path),
             parts \in scan_folder_structure(
                          fs, Append(folder_path, AssetsName), folder_path),
             qr_code_file \in find_qr_code(fs, folder_path)}

-----------------------------------------------------------------------------
(* Excel descriptors: a sheet is the sequence of its rows, a row the       *)
(* sequence of its cells, a cell None or Some(text).                       *)

RECURSIVE LStrip(_)
LStrip(str) ==
    IF str # <<>> /\ str[1] \in Whitespace THEN LStrip(Tail(str)) ELSE str

RECURSIVE RStrip(_)
RStrip(str) ==
    IF str # <<>> /\ str[Len(str)] \in Whitespace
    THEN RStrip(SubSeq(str, 1, Len(str) - 1))
    ELSE str

\* str.strip()
Strip(str) == RStrip(LStrip(str))

\* lines 329-330
CellText(cell) == IF cell # None THEN Strip(cell[1]) ELSE <<>>

\* lines 320-325
StrayData(sheet) ==
    \E r \in 1..Len(sheet) : \E c \in 3..Len(sheet[r]) : sheet[r][c] # None

\* lines 328-340: the rows after the header that hold a key and a value
RECURSIVE DataRows(_)
DataRows(rows) ==
    IF rows = <<>> THEN <<>>
    ELSE LET key == CellText(Head(rows)[1])
             value == CellText(Head(rows)[2])
         IN (IF key # <<>> /\ value # <<>>
             THEN <<[key |-> key, value |-> value]>>
             ELSE <<>>) \o DataRows(Tail(rows))

\* lines 335-338, and the IndexError of row[1] on a one-column sheet
RowErrors(rows) ==
    \E r \in 1..Len(rows) :
       \/ Len(rows[r]) < 2
       \/ (CellText(rows[r][1]) = <<>>) # (CellText(rows[r][2]) = <<>>)

\* lines 307-351 (openpyxl installed): None on a validation failure, else
\* the description
validate_and_read_excel(sheet) ==
    IF sheet = <<>> THEN Some(<<>>)
    ELSE IF StrayData(sheet) \/ RowErrors(Tail(sheet)) THEN None
    ELSE Some(DataRows(Tail(sheet)))

\* a merge that stops at the top-level parts
update_parts_flat(fs, parts_list, current_path) ==
    [i \in DOMAIN parts_list |->
        LET part == parts_list[i]
            part_excel == File(Append(current_path, part.name), part.name, ".xlsx")
            desc == IF FileExists(fs, part_excel)
                    THEN validate_and_read_excel(fs.files[part_excel])
                    ELSE None
        IN [part EXCEPT !.description = IF desc # None THEN desc[1] ELSE @]]

\* lines 379-390: the parts list with the descriptions of valid workbooks
RECURSIVE update_parts_recursive(_, _, _)
update_parts_recursive(fs, parts_list, current_path) ==
    [i \in DOMAIN parts_list |->
        LET part == parts_list[i]
            part_folder == Append(current_path, part.name)
            part_excel == File(part_folder, part.name, ".xlsx")
            desc == IF FileExists(fs, part_excel)
                    THEN validate_and_read_excel(fs.files[part_excel])
                    ELSE None
        IN [part EXCEPT
              !.description = IF desc # None THEN desc[1] ELSE @,
              !.parts = update_parts_recursive(fs, @, part_folder)]]

\* lines 354-399: the file system after the call
update_json_from_excel(fs, model_folder) ==
    IF ~FileExists(fs, DataJson(model_folder)) THEN fs
    ELSE LET data == fs.files[DataJson(model_folder)]
         IN IF data = <<>> THEN fs
            ELSE LET main_excel == File(model_folder, data[1].name, ".xlsx")
                     desc == IF FileExists(fs, main_excel)
                             THEN validate_and_read_excel(fs.files[main_excel])
                             ELSE None
                     assets_folder == Append(model_folder, AssetsName)
                     updated ==
                         [data[1] EXCEPT
                            !.Description = IF desc # None THEN desc[1] ELSE @,
                            !.parts = IF DirExists(fs, assets_folder)
                                      THEN update_parts_recursive(fs, @, assets_folder)
                                      ELSE @]
                 IN WriteFile(fs, DataJson(model_folder), <<updated>>)

\* lines 402-410
save_data_json(fs, folder_path, data) == WriteFile(fs, DataJson(folder_path), data)

\* lines 413-424: the file system after the call, and the value returned
\* a regeneration that merges the workbooks also when the build gave nothing
regenerate_merging_anyway(fs, folder_path) ==
    {IF data # None
     THEN [fs |-> update_json_from_excel(
                      save_data_json(fs, folder_path, data[1]), folder_path),
           ok |-> TRUE]
     ELSE [fs |-> update_json_from_excel(fs, folder_path), ok |-> FALSE] :
        data \in generate_data_json(fs, folder_path)}

regenerate_data_json(fs, folder_path) ==
    {IF data # None
     THEN [fs |-> update_json_from_excel(
                      save_data_json(fs, folder_path, data[1]), folder_path),
           ok |-> TRUE]
     ELSE [fs |-> fs, ok |-> FALSE] :
        data \in generate_data_json(fs, folder_path)}

-----------------------------------------------------------------------------
(* Folder structure creation *)

\* shutil.rmtree(path)
Rmtree(fs, path) ==
    [dirs |-> {d \in fs.dirs : ~IsPrefix(path, d)},
     files |-> [f \in {g \in DOMAIN fs.files : ~IsPrefix(path, g.dir)} |-> fs.files[f]]]

\* shutil.move(src, dst) of a file
MoveFile(fs, src, dst) == WriteFile(RemoveFile(fs, src), dst, fs.files[src])

\* lines 466-516: the steps after the existence checks
BuildStructure(fs, glb_path) ==
    LET model_name == glb_path.stem
        main_folder == Append(glb_path.dir, model_name)
        assets_folder == Append(main_folder, AssetsName)
        made == Mkdir(Mkdir(fs, main_folder), assets_folder)
        forest == extract_hierarchy(fs.files[glb_path])
        parts == IF forest # <<>>
                 THEN create_folders_from_hierarchy(made, forest, assets_folder)
                 ELSE made
        videos == Mkdir(parts, Append(assets_folder, VideosName))
        empty == WriteFile(videos, DataJson(main_folder), <<>>)
        moved == MoveFile(empty, glb_path, File(main_folder, glb_path.stem, glb_path.ext))
        excel == create_part_excel(moved, main_folder, model_name)
    IN {[fs |-> r.fs, model_folder |-> Some(main_folder)] :
           r \in regenerate_data_json(excel, main_folder)}

\* a scaffolder that merges into a folder that is already there
create_folder_structure_merging(fs, glb_path, auto_mode, response) ==
    IF ~FileExists(fs, glb_path) \/ LowerExt(glb_path.ext) # ".glb"
    THEN {[fs |-> fs, model_folder |-> None]}
    ELSE BuildStructure(fs, glb_path)

\* lines 431-516: the file system after the call, and the value returned;
\* response is the answer to the overwrite prompt of the manual mode
create_folder_structure(fs, glb_path, auto_mode, response) ==
    LET main_folder == Append(glb_path.dir, glb_path.stem)
    IN IF ~FileExists(fs, glb_path) \/ LowerExt(glb_path.ext) # ".glb"
       THEN {[fs |-> fs, model_folder |-> None]}
       ELSE IF DirExists(fs, main_folder)
       THEN (IF auto_mode \/ response # "y"
             THEN {[fs |-> fs, model_folder |-> None]}
             ELSE BuildStructure(Rmtree(fs, main_folder), glb_path))
       ELSE BuildStructure(fs, glb_path)

-----------------------------------------------------------------------------
(* File system watcher: UnifiedFileHandler. The watch folder is the path   *)
(* <<>>. Time is counted in units of the 0.5 s that _handle_file_event     *)
(* sleeps.                                                                 *)

SettleDelay == 1                    \* time.sleep(0.5), the unit of time
update_delay == 2 * SettleDelay     \* self.update_delay = 1 (second)
CopyDelay == 2 * SettleDelay        \* time.sleep(1) of the auto mode

watch_folder == <<>>

\* lines 532-545: the nearest folder above the file, below the watch folder,
\* that holds a .glb file; None if there is none
\* a walk that returns the outermost folder holding a .glb file
RECURSIVE FindOutermost(_, _)
FindOutermost(fs, current) ==
    IF current = watch_folder THEN None
    ELSE LET above == FindOutermost(fs, Parent(current))
         IN IF above # None THEN above
            ELSE IF \E f \in FilesIn(fs, current) : f.ext = ".glb" THEN Some(current)
            ELSE None

RECURSIVE FindFrom(_, _)
FindFrom(fs, current) ==
    IF current = watch_folder THEN None
    ELSE IF \E f \in FilesIn(fs, current) : f.ext = ".glb" THEN Some(current)
    ELSE FindFrom(fs, Parent(current))

find_model_folder(fs, file_path) == FindFrom(fs, file_path.dir)

\* a test that takes the manifest for an auxiliary file
IsAuxiliaryOrManifest(file_path) ==
    \/ LowerExt(file_path.ext) \in IMAGE_EXTENSIONS
    \/ LowerExt(file_path.ext) \in VIDEO_EXTENSIONS
    \/ LowerExt(file_path.ext) \in {".xlsx", ".json"}

IsAuxiliary(file_path) ==
    \/ LowerExt(file_path.ext) \in IMAGE_EXTENSIONS
    \/ LowerExt(file_path.ext) \in VIDEO_EXTENSIONS
    \/ LowerExt(file_path.ext) = ".xlsx"

\* self.last_update.get(str(model_folder), 0)
LastTime(lu, model_folder) ==
    IF model_folder \in DOMAIN lu THEN lu[model_folder] ELSE 0

SetTime(lu, model_folder, t) ==
    [m \in DOMAIN lu \cup {model_folder} |-> IF m = model_folder THEN t ELSE lu[m]]

\* a throttle that restarts the window on every event, dropped or not
should_process_sliding(lu, fs, file_path, current_time) ==
    IF ~IsAuxiliary(file_path) \/ find_model_folder(fs, file_path) = None
    THEN [ok |-> FALSE, last_update |-> lu]
    ELSE LET model_folder == find_model_folder(fs, file_path)[1]
         IN [ok |-> current_time - LastTime(lu, model_folder) >= update_delay,
             last_update |-> SetTime(lu, model_folder, current_time)]

\* lines 547-573: the value returned, and self.last_update after the call
should_process_file(lu, fs, file_path, current_time) ==
    IF ~IsAuxiliary(file_path) \/ find_model_folder(fs, file_path) = None
    THEN [ok |-> FALSE, last_update |-> lu]
    ELSE LET model_folder == find_model_folder(fs, file_path)[1]
         IN IF current_time - LastTime(lu, model_folder) < update_delay
            THEN [ok |-> FALSE, last_update |-> lu]
            ELSE [ok |-> TRUE,
                  last_update |-> SetTime(lu, model_folder, current_time)]

Outcome(fs, lu, did, root, elapsed) ==
    [fs |-> fs, last_update |-> lu, did |-> did, root |-> root, elapsed |-> elapsed]

\* a handler that rebuilds the manifest for workbook events too
handle_file_event_rebuilding(lu, fs, file_path, current_time) ==
    LET check == should_process_file(lu, fs, file_path, current_time)
        model_folder == find_model_folder(fs, file_path)
    IN IF ~check.ok
       THEN {Outcome(fs, check.last_update, "dropped", model_folder, 0)}
       ELSE {Outcome(update_json_from_excel(r.fs, model_folder[1]),
                     check.last_update, "rebuilt", model_folder, SettleDelay) :
                r \in regenerate_data_json(fs, model_folder[1])}

\* lines 575-600: the outcomes of the call: the file system and
\* self.last_update after it, what it did (dropped the event, merged the
\* workbooks into the manifest, or rebuilt the manifest and merged), for
\* which model folder, and the time it slept
handle_file_event(lu, fs, file_path, current_time) ==
    LET check == should_process_file(lu, fs, file_path, current_time)
        model_folder == find_model_folder(fs, file_path)
    IN IF ~check.ok
       THEN {Outcome(fs, check.last_update, "dropped", model_folder, 0)}
       ELSE IF LowerExt(file_path.ext) = ".xlsx"
       THEN {Outcome(update_json_from_excel(fs, model_folder[1]),
                     check.last_update, "merged", model_folder, SettleDelay)}
       ELSE {Outcome(update_json_from_excel(r.fs, model_folder[1]),
                     check.last_update, "rebuilt", model_folder, SettleDelay) :
                r \in regenerate_data_json(fs, model_folder[1])}

\* lines 608-624: a QR image created in the watch folder
IsLooseMarker(file_path) ==
    /\ LowerExt(file_path.ext) \in IMAGE_EXTENSIONS
    /\ Lower(file_path.stem) = qrcode
    /\ file_path.dir = watch_folder

\* lines 609-612
model_folders(fs) ==
    {subdir \in SubdirsOf(fs, watch_folder) :
        \E f \in FilesIn(fs, subdir) : f.ext = ".glb"}

\* a handler that puts the image into some model folder when there are several
place_marker_anywhere(lu, fs, file_path) ==
    IF model_folders(fs) = {} \/ ~FileExists(fs, file_path)
    THEN {Outcome(fs, lu, "ignored", None, 0)}
    ELSE LET model_folder == CHOOSE m \in model_folders(fs) : TRUE
             moved == MoveFile(fs, file_path,
                               File(model_folder, file_path.stem, file_path.ext))
         IN {Outcome(r.fs, lu, "marker", Some(model_folder), SettleDelay) :
                r \in regenerate_data_json(moved, model_folder)}

\* lines 613-624: shutil.move raises when the image is gone already, and the
\* except clause then skips the rebuild
place_marker(lu, fs, file_path) ==
    IF Cardinality(model_folders(fs)) # 1 \/ ~FileExists(fs, file_path)
    THEN {Outcome(fs, lu, "ignored", None, 0)}
    ELSE LET model_folder == CHOOSE m \in model_folders(fs) : TRUE
             moved == MoveFile(fs, file_path,
                               File(model_folder, file_path.stem, file_path.ext))
         IN {Outcome(r.fs, lu, "marker", Some(model_folder), SettleDelay) :
                r \in regenerate_data_json(moved, model_folder)}

Result(o, pg) ==
    [fs |-> o.fs, last_update |-> o.last_update, processed_glb_files |-> pg,
     did |-> o.did, root |-> o.root, elapsed |-> o.elapsed]

\* lines 602-643: the outcomes of on_created for the event
\* a handler that does not look up the .glb files it has handled
on_created_forgetful(lu, pg, fs, event, current_time) ==
    LET file_path == event.src_path
    IN IF event.is_directory
       THEN {Result(Outcome(fs, lu, "ignored", None, 0), pg)}
       ELSE IF IsLooseMarker(file_path)
       THEN {Result(o, pg) : o \in place_marker(lu, fs, file_path)}
       ELSE IF LowerExt(file_path.ext) = ".glb"
       THEN (IF file_path.dir = watch_folder
             THEN {Result(Outcome(r.fs, lu,
                                  IF r.model_folder # None THEN "scaffolded"
                                  ELSE "skipped",
                                  r.model_folder, CopyDelay),
                          pg \cup {file_path}) :
                      r \in create_folder_structure(fs, file_path, TRUE, "n")}
             ELSE {Result(Outcome(fs, lu, "ignored", None, 0), pg)})
       ELSE IF IsAuxiliary(file_path)
       THEN {Result(o, pg) : o \in handle_file_event(lu, fs, file_path, current_time)}
       ELSE {Result(Outcome(fs, lu, "ignored", None, 0), pg)}

on_created(lu, pg, fs, event, current_time) ==
    LET file_path == event.src_path
    IN IF event.is_directory
       THEN {Result(Outcome(fs, lu, "ignored", None, 0), pg)}
       ELSE IF IsLooseMarker(file_path)
       THEN {Result(o, pg) : o \in place_marker(lu, fs, file_path)}
       ELSE IF LowerExt(file_path.ext) = ".glb" /\ file_path \notin pg
       THEN (IF file_path.dir = watch_folder
             THEN {Result(Outcome(r.fs, lu,
                                  IF r.model_folder # None THEN "scaffolded"
                                  ELSE "skipped",
                                  r.model_folder, CopyDelay),
                          pg \cup {file_path}) :
                      r \in create_folder_structure(fs, file_path, TRUE, "n")}
             ELSE {Result(Outcome(fs, lu, "ignored", None, 0), pg)})
       ELSE IF IsAuxiliary(file_path)
       THEN {Result(o, pg) : o \in handle_file_event(lu, fs, file_path, current_time)}
       ELSE {Result(Outcome(fs, lu, "ignored", None, 0), pg)}

\* lines 645-652
on_deleted(lu, pg, fs, event, current_time) ==
    IF ~event.is_directory /\ IsAuxiliary(event.src_path)
    THEN {Result(o, pg) : o \in handle_file_event(lu, fs, event.src_path, current_time)}
    ELSE {Result(Outcome(fs, lu, "ignored", None, 0), pg)}

\* FileSystemEventHandler.on_modified is not overridden: it does nothing
on_modified(lu, pg, fs, event, current_time) ==
    {Result(Outcome(fs, lu, "ignored", None, 0), pg)}

-----------------------------------------------------------------------------
(* The filesystem of the state *)

FS == [dirs |-> dirs, files |-> files]

SetFS(fs) == dirs' = fs.dirs /\ files' = fs.files

ColorCell == <<67>>     \* "C"
RedCell == <<82>>       \* "R"

\* a descriptor a user filled in: the header and the row  C | R
EditedSheet == Append(TemplateSheet, <<Some(ColorCell), Some(RedCell)>>)

ImageStem == <<97>>     \* "a"

-----------------------------------------------------------------------------
(* SpecExtract: extract_hierarchy on every scene graph within the bounds,  *)
(* then create_folders_from_hierarchy on its result, up to MaxRuns times   *)
(* on the same destination, with a user edit in between.                   *)

Dest == <<>>

NoTrace == [did |-> "ignored", root |-> None]

HandlerIdle ==
    /\ now = 0
    /\ last_update = <<>>
    /\ processed_glb_files = {}
    /\ trace = NoTrace
    /\ window = <<>>
    /\ user_ops = 0

InitExtract ==
    /\ \/ gltf = [decodes |-> FALSE, nodes |-> <<>>]
       \/ \E n \in 0..MaxNodes :
             \E kinds \in [1..n -> NameKinds], k \in 0..MaxRefs :
                \E refs \in [1..k -> (0..(n - 1)) \X (0..n)] :
                   /\ \A i \in 1..(k - 1) : refs[i][1] <= refs[i + 1][1]
                   /\ gltf = [decodes |-> TRUE, nodes |-> Graph(kinds, refs)]
    /\ hierarchy = None
    /\ runs = 0
    /\ dirs = {Dest}
    /\ files = <<>>
    /\ HandlerIdle

Extract ==
    /\ hierarchy = None
    /\ hierarchy' = Some(extract_hierarchy(gltf))
    /\ UNCHANGED <<gltf, runs, dirs, files, now, last_update,
                   processed_glb_files, trace, window, user_ops>>

Scaffold ==
    /\ hierarchy # None
    /\ runs < MaxRuns
    /\ SetFS(create_folders_from_hierarchy(FS, hierarchy[1], Dest))
    /\ runs' = runs + 1
    /\ UNCHANGED <<gltf, hierarchy, now, last_update, processed_glb_files,
                   trace, window, user_ops>>

UserTouched ==
    \E f \in DOMAIN files : f.ext = ".png" \/ files[f] = EditedSheet

\* between two runs a user fills in the descriptor of one part folder and
\* drops an image into the folder
UserWorksOnPart ==
    /\ runs = 1
    /\ ~UserTouched
    /\ \E d \in dirs \ {Dest} :
          SetFS(WriteFile(WriteFile(FS, File(d, Last(d), ".xlsx"), EditedSheet),
                          File(d, ImageStem, ".png"), <<>>))
    /\ UNCHANGED <<gltf, hierarchy, runs, now, last_update,
                   processed_glb_files, trace, window, user_ops>>

NextExtract == Extract \/ Scaffold \/ UserWorksOnPart

SpecExtract == InitExtract /\ [][NextExtract]_vars

\* SpecCycle: extract_hierarchy applied to the same scene graphs, nothing else
NextCycle == Extract

SpecCycle == InitExtract /\ [][NextCycle]_vars


-----------------------------------------------------------------------------
(* Spec: the watcher on a watch folder, a user who changes the tree, the   *)
(* events the observer delivers, the clock, and the one-shot commands of   *)
(* main().                                                                 *)

ModelStem == <<77>>                 \* "M", of M.glb

\* M.glb: two roots, "a" with the child "c", and "B"
TwoRootGlb ==
    [decodes |-> TRUE,
     nodes |-> << [name |-> Some(<<97>>), children |-> <<2>>],
                  [name |-> Some(<<66>>), children |-> <<>>],
                  [name |-> Some(<<99>>), children |-> <<>>] >>]

CorruptGlb == [decodes |-> FALSE, nodes |-> <<>>]

GlbContents == {TwoRootGlb, CorruptGlb}

\* a descriptor with a key-only row: the header and the row  C | (empty)
KeyOnlySheet == Append(TemplateSheet, <<Some(ColorCell), None>>)

UserSheets == {EditedSheet, KeyOnlySheet}

NewPartName == <<90>>               \* "Z"

EmptyWatch == [dirs |-> {watch_folder}, files |-> <<>>]

LooseGlb == File(watch_folder, ModelStem, ".glb")

\* the tree a previous session left: M.glb dropped and scaffolded
Scaffolded ==
    (CHOOSE r \in create_folder_structure(
                     WriteFile(EmptyWatch, LooseGlb, TwoRootGlb), LooseGlb, TRUE, "n") :
        TRUE).fs

Init ==
    /\ gltf = CorruptGlb
    /\ hierarchy = None
    /\ runs = 0
    /\ \E fs \in {EmptyWatch, Scaffolded} : dirs = fs.dirs /\ files = fs.files
    /\ now = update_delay      \* time.time() is far above update_delay
    /\ last_update = <<>>
    /\ processed_glb_files = {}
    /\ trace = NoTrace
    /\ window = <<>>
    /\ user_ops = 0

\* the events and reconciliations of the debounce window of an observed model
\* folder (one in DOMAIN w): a window opens with the first event for the
\* folder, and with the first event that arrives update_delay or more after
\* the window opened; nth counts the windows, before is the number of events
\* of the window before
WindowAfter(w, root, t, reconciled) ==
    LET n == IF reconciled THEN 1 ELSE 0
    IN IF root \notin DOMAIN w THEN w
       ELSE IF w[root].nth = 0 \/ t >= w[root].start + update_delay
       THEN [w EXCEPT ![root] = [@ EXCEPT !.start = t, !.events = 1,
                                            !.recons = n, !.nth = @ + 1,
                                            !.before = w[root].events]]
       ELSE [w EXCEPT ![root].events = IF @ < MaxBurst THEN @ + 1 ELSE @,
                      ![root].recons = @ + n]

\* a reconciliation of an observed model folder, of whatever trigger, that
\* started at time t: last is the start of the last reconciliation (0: none
\* yet), gap the shortest time between two successive ones so far
StampAfter(w, root, t) ==
    IF root \notin DOMAIN w THEN w
    ELSE [w EXCEPT ![root].last = t,
                   ![root].gap = IF w[root].last # 0 /\ t - w[root].last < @
                                 THEN t - w[root].last ELSE @]

\* no window of the model folder has opened yet
NoWindow == [start |-> 0, events |-> 0, recons |-> 0, nth |-> 0, before |-> 0,
             last |-> 0, gap |-> update_delay]

\* one call of the handler with outcome r
Handled(r) ==
    /\ now + r.elapsed <= MaxTime
    /\ SetFS(r.fs)
    /\ last_update' = r.last_update
    /\ processed_glb_files' = r.processed_glb_files
    /\ now' = now + r.elapsed
    /\ trace' = [did |-> r.did, root |-> r.root]
    /\ window' = IF r.did \in {"dropped", "merged", "rebuilt"} /\ r.root # None
                  THEN WindowAfter(
                           IF r.did = "dropped" THEN window
                           ELSE StampAfter(window, r.root[1], now + r.elapsed),
                           r.root[1], now, r.did # "dropped")
                  ELSE IF r.did \in {"marker", "scaffolded"} /\ r.root # None
                  THEN StampAfter(window, r.root[1], now + r.elapsed)
                  ELSE window
    /\ UNCHANGED <<gltf, hierarchy, runs, user_ops>>

ModelFolder == <<ModelStem>>
PartFolder == <<ModelStem, AssetsName, <<97>>>>       \* M/Assets/a

\* the files the delivered events name, whether they exist (still) or not:
\* M.glb in the watch folder and in the model folder, an image in the model
\* folder and in a part folder, the descriptor of the part, and Data.json
EventFiles ==
    {LooseGlb,
     File(ModelFolder, ModelStem, ".glb"),
     File(ModelFolder, ImageStem, ".png"),
     File(PartFolder, ImageStem, ".png"),
     File(PartFolder, Last(PartFolder), ".xlsx"),
     DataJson(ModelFolder)}

FileEvent(f) == [src_path |-> f, is_directory |-> FALSE]

CreatedFile ==
    \E f \in EventFiles :
       \E r \in on_created(last_update, processed_glb_files, FS, FileEvent(f), now) :
          Handled(r)

CreatedDirectory ==
    \E d \in dirs \cap {ModelFolder, PartFolder} :
       \E r \in on_created(last_update, processed_glb_files, FS,
                            [src_path |-> d, is_directory |-> TRUE], now) :
          Handled(r)

DeletedFile ==
    \E f \in EventFiles :
       \E r \in on_deleted(last_update, processed_glb_files, FS, FileEvent(f), now) :
          Handled(r)

ModifiedFile ==
    \E f \in EventFiles :
       \E r \in on_modified(last_update, processed_glb_files, FS, FileEvent(f), now) :
          Handled(r)

Tick ==
    /\ now < MaxTime
    /\ now' = now + 1
    /\ UNCHANGED <<gltf, hierarchy, runs, dirs, files, last_update,
                   processed_glb_files, trace, window, user_ops>>

\* something the user does: a change to the tree, or a run of a one-shot
\* command that did did for root
UserRuns(fs, did, root) ==
    /\ user_ops < MaxUserOps
    /\ user_ops' = user_ops + 1
    /\ SetFS(fs)
    /\ trace' = [did |-> did, root |-> root]
    /\ UNCHANGED <<gltf, hierarchy, runs, now, last_update, processed_glb_files,
                   window>>

UserDoes(fs) == UserRuns(fs, "ignored", None)

UserDropsGlb ==
    /\ ~FileExists(FS, LooseGlb)
    /\ \E content \in GlbContents : UserDoes(WriteFile(FS, LooseGlb, content))

\* the folders a user drops an image into: the model folder and part "a"
ButtonFolders == {ModelFolder, PartFolder}

UserAddsButton ==
    \E d \in dirs \cap ButtonFolders :
       /\ ~FileExists(FS, File(d, ImageStem, ".png"))
       /\ UserDoes(WriteFile(FS, File(d, ImageStem, ".png"), <<>>))

UserRemovesFile ==
    \E f \in DOMAIN files :
       /\ f.ext \in {".png", ".glb"}
       /\ UserDoes(RemoveFile(FS, f))

UserEditsSheet ==
    \E f \in DOMAIN files, sheet \in UserSheets :
       /\ f.ext = ".xlsx"
       /\ f.dir \in ButtonFolders
       /\ files[f] # sheet
       /\ UserDoes(WriteFile(FS, f, sheet))

UserMakesPart ==
    \E d \in dirs :
       /\ d # watch_folder
       /\ Last(d) = AssetsName
       /\ Append(d, NewPartName) \notin dirs
       /\ UserDoes(Mkdir(FS, Append(d, NewPartName)))

\* main() with the path of a .glb file: the manual mode, the user answering
\* the overwrite prompt with response
MainGlb ==
    /\ user_ops < MaxUserOps
    /\ \E response \in {"y", "n"} :
          \E r \in create_folder_structure(FS, LooseGlb, FALSE, response) :
             UserRuns(r.fs,
                      IF r.model_folder # None THEN "main scaffolded"
                      ELSE "main skipped",
                      Some(ModelFolder))

\* main() with the path of a directory: one manifest rebuild
MainDir ==
    /\ user_ops < MaxUserOps
    /\ \E d \in dirs \cap {ModelFolder, PartFolder} :
          \E r \in regenerate_data_json(FS, d) :
             UserRuns(r.fs, IF r.ok THEN "main rebuilt" ELSE "main failed", Some(d))

Next ==
    \/ CreatedFile
    \/ CreatedDirectory
    \/ DeletedFile
    \/ ModifiedFile
    \/ Tick
    \/ UserDropsGlb
    \/ UserAddsButton
    \/ UserRemovesFile
    \/ UserEditsSheet
    \/ UserMakesPart
    \/ MainGlb
    \/ MainDir

Spec == Init /\ [][Next]_vars

-----------------------------------------------------------------------------
(* SpecBuild: the manifest builder on the directory trees that hold the    *)
(* scaffolded model folder M and any of a set of further files; the user   *)
(* edits descriptors, adds a part folder and runs the one-shot rebuild.    *)

UpperStem == <<89>>                 \* "Y"
SecondGlbStem == <<78>>             \* "N"
VideosFolder == <<ModelStem, AssetsName, VideosName>>

ExtraFiles ==
    {File(ModelFolder, ImageStem, ".png"),
     File(ModelFolder, ImageStem, ".jpg"),
     File(ModelFolder, UpperStem, ".PNG"),
     File(ModelFolder, QRCodeStem, ".png"),
     File(ModelFolder, qrcode, ".jpg"),
     File(ModelFolder, SecondGlbStem, ".glb"),
     File(VideosFolder, Last(PartFolder), ".mp4"),
     File(VideosFolder, Last(PartFolder), ".avi"),
     File(PartFolder, ImageStem, ".png")}

ExtraContent(f) == IF f.ext = ".glb" THEN CorruptGlb ELSE <<>>

InitBuild ==
    /\ gltf = CorruptGlb
    /\ hierarchy = None
    /\ runs = 0
    /\ dirs = Scaffolded.dirs
    /\ \E extra \in SUBSET ExtraFiles :
          files = [f \in DOMAIN Scaffolded.files \cup extra |->
                     IF f \in extra THEN ExtraContent(f) ELSE Scaffolded.files[f]]
    /\ now = update_delay
    /\ last_update = <<>>
    /\ processed_glb_files = {}
    /\ trace = NoTrace
    /\ window = <<>>
    /\ user_ops = 0

NextBuild == MainDir \/ UserEditsSheet \/ UserMakesPart

SpecBuild == InitBuild /\ [][NextBuild]_vars

-----------------------------------------------------------------------------
(* SpecValidate: validate_and_read_excel on the descriptor of part a, a    *)
(* sheet of one to three columns with a header row and data rows.          *)

MaxRows == 2         \* data rows of a descriptor sheet

PaddedCell == <<32, 67, 32>>        \* " C "

\* a cell without a value, a cell of white space, a cell with text
Cells == {None, Some(Blank), Some(PaddedCell)}

Widths == {1, 2, 3}

\* the sheets of the given width (openpyxl rows all have ws.max_column cells)
SheetsOfWidth(w) ==
    UNION {[1..(n + 1) -> [1..w -> Cells]] : n \in 0..MaxRows}

PartDescriptor == File(PartFolder, Last(PartFolder), ".xlsx")

InitValidate ==
    /\ gltf = CorruptGlb
    /\ hierarchy = None
    /\ runs = 0
    /\ dirs = Scaffolded.dirs
    /\ \E w \in Widths : \E sheet \in SheetsOfWidth(w) :
          files = WriteFile(Scaffolded, PartDescriptor, sheet).files
    /\ now = update_delay
    /\ last_update = <<>>
    /\ processed_glb_files = {}
    /\ trace = NoTrace
    /\ window = <<>>
    /\ user_ops = 0

\* one call of validate_and_read_excel on the descriptor
ReadsDescriptor ==
    /\ trace = NoTrace
    /\ trace' = [did |-> "read", root |-> Some(PartFolder),
                 result |-> validate_and_read_excel(files[PartDescriptor])]
    /\ UNCHANGED <<gltf, hierarchy, runs, dirs, files, now, last_update,
                   processed_glb_files, window, user_ops>>

NextValidate == ReadsDescriptor

SpecValidate == InitValidate /\ [][NextValidate]_vars

-----------------------------------------------------------------------------
(* SpecRoundTrip: the scaffolded model folder M with the descriptors of M, *)
(* a and a/c filled in by the user; events for files of M arrive and the   *)
(* user edits descriptors and runs the one-shot rebuild.                   *)

WeightCell == <<87>>    \* "W"

\* the header, the row  C | R, a blank row, and the row  W | " C "
TwoRowSheet ==
    TemplateSheet \o << <<Some(ColorCell), Some(RedCell)>>,
                        <<None, Some(Blank)>>,
                        <<Some(WeightCell), Some(PaddedCell)>> >>

FilledSheets == {TemplateSheet, EditedSheet, KeyOnlySheet, TwoRowSheet}

NestedFolder == Append(PartFolder, <<99>>)                 \* M/Assets/a/c

DescriptorOf(d) == File(d, Last(d), ".xlsx")

Described == {ModelFolder, PartFolder, NestedFolder}

InitRoundTrip ==
    /\ gltf = CorruptGlb
    /\ hierarchy = None
    /\ runs = 0
    /\ dirs = Scaffolded.dirs
    /\ \E sheets \in [Described -> FilledSheets] :
          files = [f \in DOMAIN Scaffolded.files |->
                     IF \E d \in Described : f = DescriptorOf(d)
                     THEN sheets[CHOOSE d \in Described : f = DescriptorOf(d)]
                     ELSE Scaffolded.files[f]]
    /\ now = update_delay
    /\ last_update = <<>>
    /\ processed_glb_files = {}
    /\ trace = NoTrace
    /\ window = <<>>
    /\ user_ops = 0

NextRoundTrip == CreatedFile \/ DeletedFile \/ UserEditsSheet \/ MainDir

SpecRoundTrip == InitRoundTrip /\ [][NextRoundTrip]_vars

-----------------------------------------------------------------------------
(* SpecDebounce: the watcher on a tree that holds the scaffolded model     *)
(* folder M, with the debounce windows of M observed.                      *)

InitDebounce ==
    /\ gltf = CorruptGlb
    /\ hierarchy = None
    /\ runs = 0
    /\ dirs = Scaffolded.dirs
    /\ files = Scaffolded.files
    /\ now = update_delay
    /\ last_update = <<>>
    /\ processed_glb_files = {}
    /\ trace = NoTrace
    /\ window = [m \in {ModelFolder} |-> NoWindow]
    /\ user_ops = 0

NextDebounce ==
    \/ CreatedFile
    \/ CreatedDirectory
    \/ DeletedFile
    \/ ModifiedFile
    \/ Tick

SpecDebounce == InitDebounce /\ [][NextDebounce]_vars

-----------------------------------------------------------------------------
(* SpecMarker: the watcher on a watch folder with no, one or two model     *)
(* folders; the user drops a QR image into the watch folder, and created   *)
(* events for it and for files of M arrive.  The reconciliations of M are  *)
(* observed.                                                               *)

LooseMarker == File(watch_folder, qrcode, ".jpg")

SecondGlb == File(watch_folder, SecondGlbStem, ".glb")

\* the scaffolded M and a second model folder N
TwoModels ==
    (CHOOSE r \in create_folder_structure(
                     WriteFile(Scaffolded, SecondGlb, CorruptGlb), SecondGlb, TRUE, "n") :
        TRUE).fs

InitMarker ==
    /\ gltf = CorruptGlb
    /\ hierarchy = None
    /\ runs = 0
    /\ \E fs \in {EmptyWatch, Scaffolded, TwoModels} :
          dirs = fs.dirs /\ files = fs.files
    /\ now = update_delay
    /\ last_update = <<>>
    /\ processed_glb_files = {}
    /\ trace = NoTrace
    /\ window = [m \in {ModelFolder} |-> NoWindow]
    /\ user_ops = 0

UserDropsMarker ==
    /\ ~FileExists(FS, LooseMarker)
    /\ UserDoes(WriteFile(FS, LooseMarker, <<>>))

CreatedMarker ==
    \E r \in on_created(last_update, processed_glb_files, FS,
                         FileEvent(LooseMarker), now) :
       Handled(r)

NextMarker ==
    \/ UserDropsMarker
    \/ CreatedMarker
    \/ CreatedFile
    \/ Tick

SpecMarker == InitMarker /\ [][NextMarker]_vars

-----------------------------------------------------------------------------
(* SpecFeedback: the watcher on the scaffolded model folder M, with or     *)
(* without images in M and in part a; the only events are those of         *)
(* directories, of Data.json, and created events of the images.            *)

DirectoryEvent(d) == [src_path |-> d, is_directory |-> TRUE]

ManifestFile == DataJson(ModelFolder)

Images == {File(ModelFolder, ImageStem, ".png"), File(PartFolder, ImageStem, ".png")}

InitFeedback ==
    /\ gltf = CorruptGlb
    /\ hierarchy = None
    /\ runs = 0
    /\ dirs = Scaffolded.dirs
    /\ \E present \in SUBSET Images :
          files = [f \in DOMAIN Scaffolded.files \cup present |->
                     IF f \in present THEN <<>> ELSE Scaffolded.files[f]]
    /\ now = update_delay
    /\ last_update = <<>>
    /\ processed_glb_files = {}
    /\ trace = NoTrace
    /\ window = <<>>
    /\ user_ops = 0

DeletedDirectory ==
    \E d \in {ModelFolder, PartFolder} :
       \E r \in on_deleted(last_update, processed_glb_files, FS,
                            DirectoryEvent(d), now) :
          Handled(r)

CreatedManifest ==
    \E r \in on_created(last_update, processed_glb_files, FS,
                         FileEvent(ManifestFile), now) :
       Handled(r)

DeletedManifest ==
    \E r \in on_deleted(last_update, processed_glb_files, FS,
                         FileEvent(ManifestFile), now) :
       Handled(r)

CreatedImage ==
    \E f \in Images :
       \E r \in on_created(last_update, processed_glb_files, FS, FileEvent(f), now) :
          Handled(r)

NextFeedback ==
    \/ CreatedDirectory
    \/ DeletedDirectory
    \/ CreatedManifest
    \/ DeletedManifest
    \/ CreatedImage
    \/ Tick

SpecFeedback == InitFeedback /\ [][NextFeedback]_vars

-----------------------------------------------------------------------------
(* SpecOwner: the watcher on the scaffolded model folder M, on M with a    *)
(* second .glb file in part a, and on M without its .glb file; the events  *)
(* are those of images and workbooks at every depth of the tree.           *)

StrayGlb == File(PartFolder, SecondGlbStem, ".glb")

OwnerTrees ==
    {Scaffolded,
     WriteFile(Scaffolded, StrayGlb, CorruptGlb),
     RemoveFile(Scaffolded, File(ModelFolder, ModelStem, ".glb"))}

OwnerFiles ==
    {File(d, ImageStem, ".png") :
        d \in {watch_folder, ModelFolder, PartFolder, NestedFolder}}
    \cup {File(PartFolder, <<97>>, ".xlsx")}

InitOwner ==
    /\ gltf = CorruptGlb
    /\ hierarchy = None
    /\ runs = 0
    /\ \E fs \in OwnerTrees : dirs = fs.dirs /\ files = fs.files
    /\ now = update_delay
    /\ last_update = <<>>
    /\ processed_glb_files = {}
    /\ trace = NoTrace
    /\ window = <<>>
    /\ user_ops = 0

CreatedAuxiliary ==
    \E f \in OwnerFiles :
       \E r \in on_created(last_update, processed_glb_files, FS, FileEvent(f), now) :
          Handled(r)

DeletedAuxiliary ==
    \E f \in OwnerFiles :
       \E r \in on_deleted(last_update, processed_glb_files, FS, FileEvent(f), now) :
          Handled(r)

NextOwner == CreatedAuxiliary \/ DeletedAuxiliary \/ Tick

SpecOwner == InitOwner /\ [][NextOwner]_vars

-----------------------------------------------------------------------------
(* SpecArrival: the watcher on an empty watch folder into which M.glb is   *)
(* dropped; the file decodes to a scene graph as in SpecExtract, whose     *)
(* nodes may also share the name "S". The only event is the created event  *)
(* of M.glb.                                                               *)

SharedName == <<83>>     \* "S"

ArrivalKinds == NameKinds \cup {"shared"}

ArrivalGraph(kinds, refs) ==
    [i \in DOMAIN kinds |->
        [name |-> IF kinds[i] = "shared" THEN Some(SharedName)
                  ELSE NameOfKind(kinds[i], i - 1),
         children |-> KidsOf(refs, i - 1)]]

InitArrival ==
    /\ \/ gltf = CorruptGlb
       \/ \E n \in 0..MaxNodes :
             \E kinds \in [1..n -> ArrivalKinds], k \in 0..MaxRefs :
                \E refs \in [1..k -> (0..(n - 1)) \X (0..n)] :
                   /\ \A i \in 1..(k - 1) : refs[i][1] <= refs[i + 1][1]
                   /\ gltf = [decodes |-> TRUE, nodes |-> ArrivalGraph(kinds, refs)]
    /\ hierarchy = None
    /\ runs = 0
    /\ dirs = EmptyWatch.dirs
    /\ files = WriteFile(EmptyWatch, LooseGlb, gltf).files
    /\ now = update_delay
    /\ last_update = <<>>
    /\ processed_glb_files = {}
    /\ trace = NoTrace
    /\ window = <<>>
    /\ user_ops = 0

CreatedGlb ==
    \E r \in on_created(last_update, processed_glb_files, FS, FileEvent(LooseGlb), now) :
       Handled(r)

NextArrival == CreatedGlb

SpecArrival == InitArrival /\ [][NextArrival]_vars

-----------------------------------------------------------------------------
(* SpecMissing: regenerate_data_json applied to the model folder M and to  *)
(* part a of the scaffolded tree, with or without images in them, while a  *)
(* user edits descriptors and removes M.glb, the Assets folder or M.       *)

ModelGlb == File(ModelFolder, ModelStem, ".glb")

InitMissing ==
    /\ gltf = CorruptGlb
    /\ hierarchy = None
    /\ runs = 0
    /\ dirs = Scaffolded.dirs
    /\ \E present \in SUBSET Images :
          files = [f \in DOMAIN Scaffolded.files \cup present |->
                     IF f \in present THEN <<>> ELSE Scaffolded.files[f]]
    /\ now = update_delay
    /\ last_update = <<>>
    /\ processed_glb_files = {}
    /\ trace = NoTrace
    /\ window = <<>>
    /\ user_ops = 0

UserRemoves ==
    \/ ModelGlb \in DOMAIN files /\ UserDoes(RemoveFile(FS, ModelGlb))
    \/ \E d \in dirs \cap {ModelFolder, Append(ModelFolder, AssetsName)} :
          UserDoes(Rmtree(FS, d))

Regenerate ==
    \E d \in {ModelFolder, PartFolder} :
       \E r \in regenerate_data_json(FS, d) :
          /\ SetFS(r.fs)
          /\ trace' = [did |-> IF r.ok THEN "regenerated" ELSE "failed", root |-> Some(d)]
          /\ UNCHANGED <<gltf, hierarchy, runs, now, last_update,
                         processed_glb_files, window, user_ops>>

NextMissing == UserEditsSheet \/ UserRemoves \/ Regenerate

SpecMissing == InitMissing /\ [][NextMissing]_vars

-----------------------------------------------------------------------------
(* SpecSlots: regenerate_data_json applied to the scaffolded model folder  *)
(* M while a user makes folders named "Z" and "Videos" anywhere below      *)
(* M/Assets, the Videos folder included.                                   *)

FolderNames == {NewPartName, VideosName}

UserMakesFolder ==
    \E d \in dirs, name \in FolderNames :
       /\ IsPrefix(<<ModelStem, AssetsName>>, d)
       /\ Append(d, name) \notin dirs
       /\ UserDoes(Mkdir(FS, Append(d, name)))

NextSlots == UserMakesFolder \/ Regenerate

SpecSlots == InitMissing /\ [][NextSlots]_vars

-----------------------------------------------------------------------------
(* SpecSheet: the watcher on the scaffolded model folder M, whose manifest *)
(* is the one built, the empty list the scaffolder writes first, or        *)
(* missing; a user edits workbooks, adds images and makes part folders,    *)
(* and the only events are those of the workbooks of M and of part a.      *)

Sheets == {File(ModelFolder, ModelStem, ".xlsx"),
           File(PartFolder, Last(PartFolder), ".xlsx")}

InitSheet ==
    /\ gltf = CorruptGlb
    /\ hierarchy = None
    /\ runs = 0
    /\ \E fs \in {Scaffolded,
                   WriteFile(Scaffolded, ManifestFile, <<>>),
                   RemoveFile(Scaffolded, ManifestFile)} :
          dirs = fs.dirs /\ files = fs.files
    /\ now = update_delay
    /\ last_update = <<>>
    /\ processed_glb_files = {}
    /\ trace = NoTrace
    /\ window = <<>>
    /\ user_ops = 0

CreatedSheet ==
    \E f \in Sheets :
       \E r \in on_created(last_update, processed_glb_files, FS, FileEvent(f), now) :
          Handled(r)

DeletedSheet ==
    \E f \in Sheets :
       \E r \in on_deleted(last_update, processed_glb_files, FS, FileEvent(f), now) :
          Handled(r)

NextSheet ==
    \/ CreatedSheet
    \/ DeletedSheet
    \/ UserEditsSheet
    \/ UserAddsButton
    \/ UserMakesPart
    \/ Tick

SpecSheet == InitSheet /\ [][NextSheet]_vars

-----------------------------------------------------------------------------
(* SpecOnce: the watcher on a watch folder that is empty or holds the      *)
(* scaffolded M; a user drops M.glb and N.glb into the watch folder and    *)
(* removes model folders, and the only events are the created events of    *)
(* these two files, of M/M.glb and of a .glb file in part a.               *)

LooseAssets == {LooseGlb, SecondGlb}

InnerAssets == {ModelGlb, StrayGlb}

UserDropsAsset ==
    \E f \in LooseAssets, content \in GlbContents :
       /\ ~FileExists(FS, f)
       /\ UserRuns(WriteFile(FS, f, content), "user", None)

UserRemovesModel ==
    \E f \in LooseAssets :
       /\ DirExists(FS, Append(watch_folder, f.stem))
       /\ UserRuns(Rmtree(FS, Append(watch_folder, f.stem)), "user", None)

CreatedAsset ==
    \E f \in LooseAssets \cup InnerAssets :
       \E r \in on_created(last_update, processed_glb_files, FS, FileEvent(f), now) :
          Handled(r)

NextOnce == UserDropsAsset \/ UserRemovesModel \/ CreatedAsset \/ Tick

SpecOnce == Init /\ [][NextOnce]_vars

-----------------------------------------------------------------------------
(* Claims about extraction and scaffolding (SpecExtract) *)

\* the name the extractor is to give node idx of the decoded graph
ExpectedName(idx) ==
    IF gltf.nodes[idx + 1].name = None THEN NodePlaceholder(idx)
    ELSE gltf.nodes[idx + 1].name[1]

NodeIds == 0..(Len(gltf.nodes) - 1)

ValidKids(idx) ==
    SelectSeq(gltf.nodes[idx + 1].children, LAMBDA c : c \in NodeIds)

GraphRoots == NodeIds \ UNION {Range(gltf.nodes[p + 1].children) : p \in NodeIds}

\* the chains root -> child -> ... of at most Len(gltf.nodes) + 1 nodes
RECURSIVE ChainsFrom(_, _)
ChainsFrom(chain, fuel) ==
    {chain} \cup
    (IF fuel = 0 THEN {}
     ELSE UNION {ChainsFrom(Append(chain, c), fuel - 1) :
                    c \in Range(ValidKids(chain[Len(chain)]))})

Chains == UNION {ChainsFrom(<<r>>, Len(gltf.nodes)) : r \in GraphRoots}

\* a chain of fuel references starts at idx
RECURSIVE DeepFrom(_, _)
DeepFrom(idx, fuel) ==
    fuel = 0 \/ \E c \in Range(ValidKids(idx)) : DeepFrom(c, fuel - 1)

\* a chain longer than the node count repeats a node: a cycle below a root
CycleBelowRoot == \E r \in GraphRoots : DeepFrom(r, Len(gltf.nodes))

\* the chains none of whose nodes has a blank name
\* p is the name path of a chain that starts at the node c and whose nodes
\* all have a non-blank name
RECURSIVE PathAt(_, _)
PathAt(p, c) ==
    /\ c \in NodeIds
    /\ ExpectedName(c) = Head(p)
    /\ ~IsBlank(Head(p))
    /\ \/ Len(p) = 1
       \/ LET kids == gltf.nodes[c + 1].children
          IN \E i \in 1..Len(kids) : PathAt(Tail(p), kids[i])

\* every chain from the node c on whose nodes all have a non-blank name has
\* its folder below the folder prefix
RECURSIVE AllMade(_, _)
AllMade(c, prefix) ==
    \/ c \notin NodeIds
    \/ IsBlank(ExpectedName(c))
    \/ LET kids == gltf.nodes[c + 1].children
           made == Append(prefix, ExpectedName(c))
       IN /\ made \in dirs
          /\ \A i \in 1..Len(kids) : AllMade(kids[i], made)

NamePath(chain) == [k \in 1..Len(chain) |-> ExpectedName(chain[k])]

\* C6 (as claimed): after extraction of a graph with exactly one root, the
\* forest is the sequence of the root's children and the root is not in it.
RECURSIVE TreeMatches(_, _)
TreeMatches(tree, idx) ==
    /\ tree.name = ExpectedName(idx)
    /\ Len(tree.children) = Len(ValidKids(idx))
    /\ \A k \in 1..Len(tree.children) :
          TreeMatches(tree.children[k], ValidKids(idx)[k])

ForestMatches(forest, ids) ==
    /\ Len(forest) = Len(ids)
    /\ \A k \in 1..Len(forest) : TreeMatches(forest[k], ids[k])

C6_SingleRootCollapsed ==
    (/\ hierarchy # None
     /\ gltf.decodes
     /\ ~CycleBelowRoot
     /\ Cardinality(GraphRoots) = 1)
    => \A r \in GraphRoots :
          ~IsBlank(ExpectedName(r)) /\ ValidKids(r) # <<>>
          => ForestMatches(hierarchy[1],
                           SelectSeq(ValidKids(r),
                                     LAMBDA c : ~IsBlank(ExpectedName(c))))

NonBlankRoots ==
    SelectSeq([i \in 1..Len(gltf.nodes) |-> i - 1],
              LAMBDA r : r \in GraphRoots /\ ~IsBlank(ExpectedName(r)))

C8_MissingChildOmitted ==
    (hierarchy # None /\ runs = 0 /\ gltf.decodes /\ ~CycleBelowRoot)
    => ForestMatches(hierarchy[1], NonBlankRoots)

\* extraction ran on a graph where a kept root lists a missing index before a
\* valid one
C8_Witness ==
    /\ hierarchy # None
    /\ ~CycleBelowRoot
    /\ \E r \in GraphRoots :
          /\ ~IsBlank(ExpectedName(r))
          /\ Len(gltf.nodes[r + 1].children) = 2
          /\ gltf.nodes[r + 1].children[1] \notin NodeIds
          /\ gltf.nodes[r + 1].children[2] \in NodeIds
          /\ Len(hierarchy[1]) >= 1

\* C9: a second (or later) run of the scaffolder on the same forest and
\* destination changes neither the set of directories nor any file, whatever
\* the user added or edited since the first run.
C9_ScaffoldIdempotent ==
    [][(runs >= 1 /\ runs' = runs + 1) => (dirs' = dirs /\ files' = files)]_vars

\* the second run happened over a descriptor the user had filled in and an
\* image the user had added
C9_Witness ==
    /\ runs = 2
    /\ \E f \in DOMAIN files : f.ext = ".xlsx" /\ files[f] = EditedSheet
    /\ \E f \in DOMAIN files : f.ext = ".png"



-----------------------------------------------------------------------------
(* Claims about the watcher and the manifest (Spec, SpecDebounce, SpecBuild) *)

C1_WitnessBurst ==
    /\ window[ModelFolder].nth = 1
    /\ window[ModelFolder].events = 5
    /\ window[ModelFolder].recons = 1

Manifest(fls) ==
    IF DataJson(ModelFolder) \in DOMAIN fls THEN fls[DataJson(ModelFolder)] ELSE <<>>

RECURSIVE FindPart(_, _)
FindPart(parts, names) ==
    LET hits == {i \in DOMAIN parts : parts[i].name = names[1]}
    IN IF hits = {} THEN None
       ELSE LET part == parts[CHOOSE i \in hits : TRUE]
            IN IF Len(names) = 1 THEN Some(part)
               ELSE FindPart(part.parts, Tail(names))

\* the record of the part folder d in the manifest of M, if it has one
PartRecord(fls, d) ==
    IF Manifest(fls) = <<>> THEN None
    ELSE FindPart(Manifest(fls)[1].parts, SubSeq(d, 3, Len(d)))

AssetsFolder == <<ModelStem, AssetsName>>

PartDirs(ds) ==
    {d \in ds : /\ Len(d) > 2
                 /\ IsPrefix(AssetsFolder, d)
                 /\ \A k \in 3..Len(d) : d[k] # VideosName}

InvalidDescriptor(fls, d) ==
    /\ File(d, Last(d), ".xlsx") \in DOMAIN fls
    /\ validate_and_read_excel(fls[File(d, Last(d), ".xlsx")]) = None

\* the step is a reconciliation of M: by an auxiliary-file event, or by the
\* one-shot rebuild
ReconciliationStep ==
    /\ now' # now \/ user_ops' # user_ops
    /\ trace'.did \in {"merged", "rebuilt", "main rebuilt"}
    /\ trace'.root = Some(ModelFolder)

\* C2 (as claimed): a reconciliation that finds the descriptor of a part
\* invalid leaves the description the manifest held for that part as it was.
C2_PriorDescriptionKept ==
    [][ReconciliationStep =>
          \A d \in PartDirs(dirs) :
             (InvalidDescriptor(files, d) /\ PartRecord(files, d) # None)
             => /\ PartRecord(files', d) # None
                /\ PartRecord(files', d)[1].description
                     = PartRecord(files, d)[1].description]_vars

\* C3 (as claimed): after a reconciliation of M the manifest is what a build
\* from the directory tree alone gives.
C3_ManifestIsSnapshot ==
    (/\ trace.did \in {"merged", "rebuilt", "main rebuilt"}
     /\ trace.root = Some(ModelFolder)
     /\ DataJson(ModelFolder) \in DOMAIN files)
    => \E r \in regenerate_data_json(FS, ModelFolder) :
          r.ok /\ r.fs.files[DataJson(ModelFolder)] = files[DataJson(ModelFolder)]

\* C4 (as claimed): the build of a directory tree has one result, whatever
\* the order in which directories and the extension set are listed.
C4_BuildDeterministic ==
    Cardinality(generate_data_json(FS, ModelFolder)) = 1

\* C5: in every manifest the parts of every level are in strictly ascending
\* order of name by code point, and the buttons of the model and of every
\* part are in ascending order of name.
Ascending(list) ==
    \A i, j \in DOMAIN list : i < j => StrLeq(list[i].name, list[j].name)

StrictlyAscending(list) ==
    \A i, j \in DOMAIN list : i < j => StrLess(list[i].name, list[j].name)

RECURSIVE PartsOrdered(_)
PartsOrdered(parts) ==
    /\ StrictlyAscending(parts)
    /\ \A i \in DOMAIN parts :
          Ascending(parts[i].buttons) /\ PartsOrdered(parts[i].parts)

C5_ManifestOrdered ==
    \A f \in DOMAIN files :
       (f.stem = DataStem /\ f.ext = ".json" /\ files[f] # <<>>)
       => Ascending(files[f][1].Buttons) /\ PartsOrdered(files[f][1].parts)

\* a manifest with the parts B and a (a with a part of its own) and the
\* buttons Y and x
C5_Witness ==
    /\ trace.did = "main rebuilt"
    /\ Manifest(files) # <<>>
    /\ Len(Manifest(files)[1].parts) >= 2
    /\ Len(Manifest(files)[1].Buttons) >= 2
    /\ \E i \in DOMAIN Manifest(files)[1].parts :
          Manifest(files)[1].parts[i].parts # <<>>
    /\ \E i, j \in DOMAIN Manifest(files)[1].Buttons :
          StrLess(Manifest(files)[1].Buttons[i].name, Manifest(files)[1].Buttons[j].name)

Under(fs, folder) ==
    [dirs |-> {d \in fs.dirs : IsPrefix(folder, d)},
     files |-> [f \in {g \in DOMAIN fs.files : IsPrefix(folder, g.dir)} |-> fs.files[f]]]

\* the step is a call of create_folder_structure for M.glb: by the watcher
\* (which then remembers the path), or by the one-shot command
WatchScaffoldStep == processed_glb_files' = processed_glb_files \cup {LooseGlb}
                     /\ LooseGlb \notin processed_glb_files

MainScaffoldStep ==
    user_ops' # user_ops /\ trace'.did \in {"main scaffolded", "main skipped"}

-----------------------------------------------------------------------------
(* Claims about descriptors (SpecValidate, Spec) *)

\* the cell of column c of a row, None where the row has no such cell
CellAt(row, c) == IF c <= Len(row) THEN row[c] ELSE None

\* the cell holds text other than white space
Populated(cell) == cell # None /\ ~IsBlank(cell[1])

Violation(sheet) ==
    \/ \E r \in 1..Len(sheet) : \E c \in 3..Len(sheet[r]) : sheet[r][c] # None
    \/ \E r \in 2..Len(sheet) :
          Populated(CellAt(sheet[r], 1)) # Populated(CellAt(sheet[r], 2))

RECURSIVE CompleteRows(_)
CompleteRows(rows) ==
    IF rows = <<>> THEN <<>>
    ELSE (IF Populated(CellAt(Head(rows), 1)) /\ Populated(CellAt(Head(rows), 2))
          THEN <<[key |-> Strip(Head(rows)[1][1]), value |-> Strip(Head(rows)[2][1])]>>
          ELSE <<>>) \o CompleteRows(Tail(rows))

\* C11 (as claimed): the reader returns the failure signal if and only if a
\* cell beyond column B holds a value or a data row has exactly one of key
\* and value; otherwise it returns the rows after the header that have both,
\* in row order, as trimmed text.
C11_AllOrNothing ==
    trace.did = "read" =>
       IF Violation(files[PartDescriptor])
       THEN trace.result = None
       ELSE trace.result = Some(CompleteRows(Tail(files[PartDescriptor])))


\* the record of the folder d in the manifest of M: the model record for M,
\* the part record for a part folder
RecordOf(fls, d) ==
    IF d # ModelFolder THEN PartRecord(fls, d)
    ELSE IF Manifest(fls) = <<>> THEN None
    ELSE Some([description |-> Manifest(fls)[1].Description])

\* the step before was a reconciliation of M
Reconciled ==
    /\ trace.did \in {"merged", "rebuilt", "main rebuilt", "marker", "scaffolded"}
    /\ trace.root = Some(ModelFolder)

-----------------------------------------------------------------------------
(* Claims about the event handler (Spec and the specifications below) *)

\* the step is a reconciliation of M by the handler of auxiliary-file events
EventReconciliationStep ==
    /\ now' # now
    /\ trace'.did \in {"merged", "rebuilt"}
    /\ trace'.root = Some(ModelFolder)

\* C13 (as claimed): every reconciliation an auxiliary-file event triggers
\* writes the manifest that a rebuild from the directory tree followed by
\* the descriptor merge gives, so that a change of the tree and an edit of a
\* descriptor delivered in one window both show in it.
C13_RebuildThenMerge ==
    [][EventReconciliationStep =>
          \E r \in regenerate_data_json(FS, ModelFolder) :
             r.ok /\ files' = r.fs.files]_vars


\* the step is the handler's call for a created, deleted, modified event of f
CreatedOf(f) ==
    \E r \in on_created(last_update, processed_glb_files, FS, FileEvent(f), now) :
       Handled(r)

DeletedOf(f) ==
    \E r \in on_deleted(last_update, processed_glb_files, FS, FileEvent(f), now) :
       Handled(r)

ModifiedOf(f) ==
    \E r \in on_modified(last_update, processed_glb_files, FS, FileEvent(f), now) :
       Handled(r)

\* f is an auxiliary file of M and the debounce window of M has passed
OutsideWindow(f) ==
    /\ IsAuxiliary(f)
    /\ find_model_folder(FS, f) = Some(ModelFolder)
    /\ now - LastTime(last_update, ModelFolder) >= update_delay

\* C14 (as claimed): a created, a modified and a deleted event of an
\* auxiliary file of M that arrives outside the debounce window of M each
\* lead to a reconciliation of M.
C14_EveryEventTypeReconciles ==
    [][\A f \in EventFiles :
          (OutsideWindow(f) /\ (CreatedOf(f) \/ ModifiedOf(f) \/ DeletedOf(f)))
          => (trace'.did \in {"merged", "rebuilt"} /\ trace'.root = Some(ModelFolder))
      ]_vars


\* C15 (as claimed): two successive reconciliations of a model folder, by an
\* auxiliary-file event, by the relocation of a marker or by the manifest
\* build that ends scaffolding, never start less than update_delay apart.
C15_ReconciliationsSpaced ==
    \A m \in DOMAIN window : window[m].gap >= update_delay


\* the model folders of the watch folder: its folders that hold a .glb file
ModelRoots ==
    {d \in dirs : Len(d) = 1 /\ \E f \in DOMAIN files : f.dir = d /\ f.ext = ".glb"}

MarkerIn(d) == File(d, LooseMarker.stem, LooseMarker.ext)

\* C16: the handler's call for the created event of a QR image that lies in
\* the watch folder: with exactly one model folder the image is moved into
\* that folder and the manifest of the folder is rebuilt (it names the
\* image); with none or several nothing is moved, no file is written, and
\* last_update and processed_glb_files stay as they are.
C16_MarkerPlaced ==
    [][(CreatedOf(LooseMarker) /\ FileExists(FS, LooseMarker)) =>
          IF Cardinality(ModelRoots) = 1
          THEN \A m \in ModelRoots :
                  /\ LooseMarker \notin DOMAIN files'
                  /\ MarkerIn(m) \in DOMAIN files'
                  /\ files'[MarkerIn(m)] = files[LooseMarker]
                  /\ trace' = [did |-> "marker", root |-> Some(m)]
                  /\ files'[DataJson(m)] # <<>>
                  /\ files'[DataJson(m)][1].qr_image_url
                       = [stem |-> LooseMarker.stem, ext |-> LooseMarker.ext]
          ELSE /\ dirs' = dirs
               /\ files' = files
               /\ last_update' = last_update
               /\ processed_glb_files' = processed_glb_files]_vars

\* the image was moved into M, the only model folder
C16_Witness ==
    /\ trace = [did |-> "marker", root |-> Some(ModelFolder)]
    /\ MarkerIn(ModelFolder) \in DOMAIN files
    /\ LooseMarker \notin DOMAIN files


\* the step is the handler's call for a created or deleted event of the
\* directory d, of the manifest of M
DirectoryStep(d) ==
    \E r \in on_created(last_update, processed_glb_files, FS, DirectoryEvent(d), now)
          \cup on_deleted(last_update, processed_glb_files, FS, DirectoryEvent(d), now) :
       Handled(r)

ManifestStep == CreatedOf(ManifestFile) \/ DeletedOf(ManifestFile)

\* C17: the handler's call for an event of a directory or of Data.json
\* scaffolds nothing, reconciles nothing (no directory or file changes) and
\* leaves last_update and processed_glb_files as they are.
C17_NoFeedback ==
    [][(ManifestStep \/ \E d \in {ModelFolder, PartFolder} : DirectoryStep(d))
          => /\ trace'.did = "ignored"
             /\ dirs' = dirs
             /\ files' = files
             /\ last_update' = last_update
             /\ processed_glb_files' = processed_glb_files
             /\ now' = now]_vars

\* after a reconciliation wrote the manifest, an event of the manifest or of
\* a directory was ignored
C17_Witness ==
    /\ trace = NoTrace
    /\ ModelFolder \in DOMAIN last_update
    /\ files[ManifestFile] # Scaffolded.files[ManifestFile]


\* the folders above the file f, below the watch folder
Ancestors(f) == {SubSeq(f.dir, 1, k) : k \in 1..Len(f.dir)}

\* the folder d holds a .glb file: the handler's test of a model folder
Qualifies(d) == \E g \in DOMAIN files : g.dir = d /\ g.ext = ".glb"

Owners(f) ==
    {d \in Ancestors(f) :
        /\ Qualifies(d)
        /\ \A e \in Ancestors(f) : Qualifies(e) => Len(e) <= Len(d)}

C18_WitnessNoOwner ==
    /\ trace.did = "dropped"
    /\ trace.root = None
    /\ File(ModelFolder, ModelStem, ".glb") \notin DOMAIN files
    /\ last_update = <<>>


\* the nodes of a forest whose name is not blank
RECURSIVE NamedNodes(_)
NamedNodes(forest) ==
    IF forest = <<>> THEN 0
    ELSE (IF IsBlank(Head(forest).name) THEN 0 ELSE 1)
         + NamedNodes(Head(forest).children) + NamedNodes(Tail(forest))

\* the part records of a part tree
RECURSIVE PartCount(_)
PartCount(parts) ==
    IF parts = <<>> THEN 0
    ELSE 1 + PartCount(Head(parts).parts) + PartCount(Tail(parts))

\* the pairs <<name of the parent (None at the top), name>> of the nodes
\* whose name is not blank
RECURSIVE ForestLinks(_, _)
ForestLinks(forest, above) ==
    UNION {(IF IsBlank(forest[i].name) THEN {} ELSE {<<above, forest[i].name>>})
           \cup ForestLinks(forest[i].children, Some(forest[i].name)) :
              i \in DOMAIN forest}

RECURSIVE PartLinks(_, _)
PartLinks(parts, above) ==
    UNION {{<<above, parts[i].name>>} \cup PartLinks(parts[i].parts, Some(parts[i].name)) :
              i \in DOMAIN parts}

\* C19: when the handler has scaffolded for the created M.glb, the file is
\* in M under its own name and no longer in the watch folder, and the
\* manifest of M holds one record whose part tree has as many part records
\* as the forest extracted from the file has nodes with a non-blank name,
\* with the same parent and child names.
C19_ArrivalMirrorsForest ==
    trace.did = "scaffolded"
       => /\ File(ModelFolder, ModelStem, ".glb") \in DOMAIN files
          /\ LooseGlb \notin DOMAIN files
          /\ Len(Manifest(files)) = 1
          /\ PartCount(Manifest(files)[1].parts) = NamedNodes(extract_hierarchy(gltf))
          /\ PartLinks(Manifest(files)[1].parts, None)
                = ForestLinks(extract_hierarchy(gltf), None)


\* the folder d is not there, holds no .glb file, or has no Assets folder
StructureMissing(d) ==
    \/ d \notin dirs
    \/ ~\E f \in DOMAIN files : f.dir = d /\ LowerExt(f.ext) = ".glb"
    \/ Append(d, AssetsName) \notin dirs

RegenerateStep(d) ==
    \E r \in regenerate_data_json(FS, d) :
       /\ SetFS(r.fs)
       /\ trace' = [did |-> IF r.ok THEN "regenerated" ELSE "failed", root |-> Some(d)]

\* C20: a call of regenerate_data_json for a folder that is not there, holds
\* no .glb file or has no Assets folder builds nothing, reports failure and
\* changes no file and no directory: a Data.json in the folder stays as it
\* is, and no workbook is merged into it.
C20_MissingStructureFails ==
    [][\A d \in {ModelFolder, PartFolder} :
          (RegenerateStep(d) /\ StructureMissing(d))
             => /\ generate_data_json(FS, d) = {None}
                /\ trace'.did = "failed"
                /\ files' = files
                /\ dirs' = dirs]_vars

\* the regeneration of M failed; M still holds its manifest and a workbook
\* edited since, whose rows the manifest does not have
C20_Witness ==
    /\ trace = [did |-> "failed", root |-> Some(ModelFolder)]
    /\ StructureMissing(ModelFolder)
    /\ DataJson(ModelFolder) \in DOMAIN files
    /\ File(ModelFolder, ModelStem, ".xlsx") \in DOMAIN files
    /\ files[File(ModelFolder, ModelStem, ".xlsx")] = EditedSheet
    /\ files[DataJson(ModelFolder)] = Scaffolded.files[DataJson(ModelFolder)]
    /\ Images \subseteq DOMAIN files


\* the name paths of the part records of a part tree, below the path prefix
RECURSIVE PartPaths(_, _)
PartPaths(parts, prefix) ==
    UNION {{Append(prefix, parts[i].name)}
           \cup PartPaths(parts[i].parts, Append(prefix, parts[i].name)) :
              i \in DOMAIN parts}

RebuiltManifest ==
    /\ trace = [did |-> "regenerated", root |-> Some(ModelFolder)]
    /\ Manifest(files) # <<>>

RECURSIVE SamePartsButDescription(_, _)
SamePartsButDescription(ps, qs) ==
    /\ Len(ps) = Len(qs)
    /\ \A i \in 1..Len(ps) :
          /\ [ps[i] EXCEPT !.description = <<>>, !.parts = <<>>]
                = [qs[i] EXCEPT !.description = <<>>, !.parts = <<>>]
          /\ SamePartsButDescription(ps[i].parts, qs[i].parts)

SameButDescription(old, new) ==
    /\ Len(old) = Len(new)
    /\ \A i \in 1..Len(old) :
          /\ [old[i] EXCEPT !.Description = <<>>, !.parts = <<>>]
                = [new[i] EXCEPT !.Description = <<>>, !.parts = <<>>]
          /\ SamePartsButDescription(old[i].parts, new[i].parts)

\* C22: the handler's call for a created or deleted workbook changes no
\* directory and no file but the manifest of M; in the manifest it changes
\* at most Description and the description fields of the part records there
\* are; and it changes nothing when the manifest is missing or the empty
\* list.
C22_SheetEventFrame ==
    [][\A f \in Sheets :
          (CreatedOf(f) \/ DeletedOf(f))
             => /\ dirs' = dirs
                /\ DOMAIN files' = DOMAIN files
                /\ \A g \in DOMAIN files \ {ManifestFile} : files'[g] = files[g]
                /\ Manifest(files) = <<>> => files' = files
                /\ Manifest(files) # <<>>
                      => SameButDescription(Manifest(files), Manifest(files'))]_vars

\* a workbook event merged the rows of an edited workbook into a manifest
\* that does not have the image since added to M
C22_Witness ==
    /\ trace = [did |-> "merged", root |-> Some(ModelFolder)]
    /\ Manifest(files) # <<>>
    /\ Manifest(files)[1].Description # <<>>
    /\ Manifest(files)[1].Buttons = <<>>
    /\ File(ModelFolder, ImageStem, ".png") \in DOMAIN files


NothingStarted ==
    /\ trace' = NoTrace
    /\ dirs' = dirs
    /\ files' = files
    /\ last_update' = last_update
    /\ processed_glb_files' = processed_glb_files
    /\ now' = now

\* C23: the handler's call for a created .glb file of the watch folder
\* records the path in processed_glb_files; a call for a recorded path, and
\* a call for a .glb file that is not directly in the watch folder, starts
\* nothing: no directory, no file and no entry of last_update changes.
C23_ScaffoldsOncePerPath ==
    [][/\ \A f \in LooseAssets :
             CreatedOf(f)
                => IF f \in processed_glb_files THEN NothingStarted
                   ELSE /\ processed_glb_files' = processed_glb_files \cup {f}
                        /\ trace'.did \in {"scaffolded", "skipped"}
                        /\ last_update' = last_update
       /\ \A f \in InnerAssets : CreatedOf(f) => NothingStarted]_vars

\* M.glb was handled once, the folder M has been removed and M.glb dropped
\* anew, and its created event was ignored
C23_Witness ==
    /\ trace = NoTrace
    /\ LooseGlb \in processed_glb_files
    /\ LooseGlb \in DOMAIN files
    /\ ModelFolder \notin dirs


\* the nodes reached from the nodes of S in at most fuel more steps along
\* child references
RECURSIVE ReachedFrom(_, _)
ReachedFrom(S, fuel) ==
    IF fuel = 0 THEN S
    ELSE ReachedFrom(S \cup UNION {Range(ValidKids(c)) : c \in S}, fuel - 1)

Descendants(c) == ReachedFrom(Range(ValidKids(c)), Len(gltf.nodes))

OnCycle(c) == c \in Descendants(c)

HasCycle == \E c \in NodeIds : OnCycle(c)

CycleFromRoot ==
    \E r \in GraphRoots : OnCycle(r) \/ \E c \in Descendants(r) : OnCycle(c)

\* C24: for a scene graph with a cycle extract_hierarchy returns a forest:
\* the empty one when a root reaches the cycle, and else the trees of the
\* roots with a non-blank name, as for a graph without a cycle.
C24_CyclicGraphExtracted ==
    (hierarchy # None /\ gltf.decodes /\ HasCycle)
       => IF CycleFromRoot THEN hierarchy[1] = <<>>
          ELSE ForestMatches(hierarchy[1], NonBlankRoots)

\* extraction gave the empty forest for a graph with a named root that
\* reaches a cycle
C24_Witness ==
    /\ hierarchy = Some(<<>>)
    /\ gltf.decodes
    /\ CycleFromRoot
    /\ NonBlankRoots # <<>>

\* extraction gave the trees of the roots for a graph with a
\* self-referencing node that no root reaches
C24_WitnessDetached ==
    /\ hierarchy # None
    /\ hierarchy # Some(<<>>)
    /\ gltf.decodes
    /\ \E c \in NodeIds : c \in Range(ValidKids(c))
    /\ ~CycleFromRoot

====
